---- MODULE Spec2Model ----
(***************************************************************************)
(* Model of stl::skip_list (include/skip_list.hpp): the containers of a    *)
(* program, the heap of shared_ptr-owned nodes they link, and one action   *)
(* per public operation.                                                   *)
(*                                                                         *)
(* Pointers.  A NodePtr is Null, or the name of a heap node, or HeadP,      *)
(* which inside a search stands for the container's own head_.  A head     *)
(* node is referenced by exactly one head_ member and never leaves the     *)
(* container, so it is kept as the field head[c]: present = FALSE is a     *)
(* null head_, id names the head object (swap and move carry it along).    *)
(* A node is linked under the head it was inserted under for as long as    *)
(* it lives, so its name is <<h, value, j>>: h that head's id, j the first *)
(* number that makes the name unused.  forward[i] of the code is           *)
(* forward[i + 1] here.                                                    *)
(***************************************************************************)
EXTENDS Integers, Sequences, FiniteSets

\* ------------------------------------------------------------ constants
MAX_LEVEL == 32

\* ------------------------------------------------------------ bounds
MaxKey == 3
MaxDraws == 1

Keys == 1 .. MaxKey
Lists == {"a", "b"}
\* the local `temp` of copy assignment
Temp == "temp"
AllLists == Lists \cup {Temp}

Null == << >>
HeadP == << 0 >>

VARIABLES
    order,          \* the Compare type of the program: "less" or "greater"
    alive,          \* alive[c]: the object c is within its lifetime
    head,           \* head_ of c: [present, forward]
    size,           \* size_
    max_level,      \* max_level_
    nodes,          \* the heap: node name -> [value, level, forward]
    inserted_keys,  \* history: the keys offered to insert() on the structure
                    \* c now holds, since it was constructed or last cleared
    fault           \* the process was ended by an invalid memory access

vars == << order, alive, head, size, max_level, nodes, inserted_keys, fault >>

\* F applied to the value of x, x being evaluated once
With(x, F(_)) == CHOOSE r \in {F(v) : v \in {x}} : TRUE

\* ------------------------------------------------------------ nodes
\* SkipListNode(val, lvl): forward.resize(lvl + 1)
SkipListNode(val, lvl) ==
    [value |-> val, level |-> lvl, forward |-> [i \in 1 .. lvl + 1 |-> Null]]

\* head_ = make_shared<Node>(T{}, MAX_LEVEL): MAX_LEVEL + 1 empty links
NewHead(h) ==
    [present |-> TRUE, id |-> h, forward |-> SkipListNode(0, MAX_LEVEL).forward]

\* a null head_ (a moved-from container, or an object outside its lifetime)
NoHead == [present |-> FALSE, id |-> 0, forward |-> << >>]

\* comp_(a, b)
comp(a, b) == IF order = "less" THEN a < b ELSE a > b

\* the store the member functions work on
Store == [head |-> head, size |-> size, max_level |-> max_level,
          nodes |-> nodes, inserted_keys |-> inserted_keys]

\* p->forward[i], p being head_ of c or a node
Fwd(st, c, p, i) ==
    IF p = HeadP THEN st.head[c].forward[i + 1] ELSE st.nodes[p].forward[i + 1]

\* a name for make_shared<Node>(value, ...) made by an insert into c
FreshNode(st, c, value) ==
    LET h == st.head[c].id
        used == {p \in DOMAIN st.nodes : p[1] = h /\ p[2] = value}
        j == CHOOSE n \in 1 .. Cardinality(used) + 1 :
                 /\ << h, value, n >> \notin used
                 /\ \A m \in 1 .. n - 1 : << h, value, m >> \in used
    IN << h, value, j >>

\* the ids of the heads the containers other than c hold
HeadIds(st, c) ==
    {st.head[d].id : d \in {e \in AllLists \ {c} : st.head[e].present}}

\* a name for the head made by a constructor of c: the first id that no
\* other head_ holds
FreshHead(st, c) ==
    LET used == HeadIds(st, c)
    IN CHOOSE n \in 1 .. Cardinality(used) + 1 :
           n \notin used /\ \A m \in 1 .. n - 1 : m \in used

\* ------------------------------------------------------------ search
\* a fault: every search walks on while the key is not before the value
Advances_NotAfter(mode, v, key) == ~ comp(key, v)

\* the loop condition of the searches: comp_(next->value, key) for insert,
\* find and lower_bound; !comp_(key, next->value) for upper_bound
Advances(mode, v, key) ==
    IF mode = "upper" THEN ~ comp(key, v) ELSE comp(v, key)

\* while (current->forward[i] && <condition>) current = current->forward[i];
RECURSIVE WalkLevel(_, _, _, _, _, _)
WalkLevel(st, c, mode, current, i, key) ==
    LET next == Fwd(st, c, current, i)
    IN IF next # Null /\ Advances(mode, st.nodes[next].value, key)
       THEN WalkLevel(st, c, mode, next, i, key)
       ELSE current

\* a fault: update[i] = current is left out, update[i] stays head_
RECURSIVE Descend_NoUpdate(_, _, _, _, _, _, _)
Descend_NoUpdate(st, c, mode, current, i, key, update) ==
    IF i < 0
    THEN [current |-> current, update |-> update]
    ELSE Descend_NoUpdate(st, c, mode, WalkLevel(st, c, mode, current, i, key),
                          i - 1, key, update)

\* for (int i = max_level_; i >= 0; --i) { while ...; update[i] = current; }
RECURSIVE Descend(_, _, _, _, _, _, _)
Descend(st, c, mode, current, i, key, update) ==
    IF i < 0
    THEN [current |-> current, update |-> update]
    ELSE LET w == WalkLevel(st, c, mode, current, i, key)
         IN Descend(st, c, mode, w, i - 1, key, [update EXCEPT ![i] = w])

\* a fault: the highest level alone is walked, the lower ones are not
Search_TopLevelOnly(st, c, mode, key) ==
    With(WalkLevel(st, c, mode, HeadP, st.max_level[c], key), LAMBDA w :
      [current |-> w,
       update |-> [i \in 0 .. MAX_LEVEL - 1 |->
                     IF i = st.max_level[c] THEN w ELSE HeadP]])

\* std::vector<NodePtr> update(MAX_LEVEL, head_); NodePtr current = head_;
Search(st, c, mode, key) ==
    Descend(st, c, mode, HeadP, st.max_level[c], key,
            [i \in 0 .. MAX_LEVEL - 1 |-> HeadP])

\* a fault: the two negations are left out
Equivalent_NoNegation(key, v) == comp(key, v) /\ comp(v, key)

\* a fault: one half of the test is left out
Equivalent_OneSided(key, v) == ~ comp(v, key)

\* !comp_(key, v) && !comp_(v, key)
Equivalent(key, v) == ~ comp(key, v) /\ ~ comp(v, key)

\* ------------------------------------------------------------ random_level
\* draws[n] is TRUE when the n-th dist_(gen_) is below P
\* a fault: the cap is tested against MAX_LEVEL, not MAX_LEVEL - 1
RECURSIVE random_level_loop_CapAtMax(_, _)
random_level_loop_CapAtMax(level, draws) ==
    IF draws # << >> /\ Head(draws) /\ level < MAX_LEVEL
    THEN random_level_loop_CapAtMax(level + 1, Tail(draws))
    ELSE level

RECURSIVE random_level_loop(_, _)
random_level_loop(level, draws) ==
    IF draws # << >> /\ Head(draws) /\ level < MAX_LEVEL - 1
    THEN random_level_loop(level + 1, Tail(draws))
    ELSE level

random_level(draws) == random_level_loop(0, draws)

\* the draw sequences considered: n draws below P, then one that is not
DrawSeqs == { [i \in 1 .. n + 1 |-> i <= n] : n \in 0 .. MaxDraws }

\* n draws below P followed by the draws of rest
Run(n, rest) ==
    [i \in 1 .. n + Len(rest) |-> IF i <= n THEN TRUE ELSE rest[i - n]]

\* the longest run of draws below P considered: past the cap of MAX_LEVEL - 1
MaxRun == MAX_LEVEL + 1

\* every length of run up to MaxRun, ended by a draw that is not below P (and
\* then whatever the generator yields next), and a run that has not ended by
\* the time the loop must have stopped
LevelDraws ==
    { Run(n, rest) : n \in 0 .. MaxRun, rest \in {<< FALSE >>, << FALSE, TRUE >>} }
        \cup {Run(MaxRun, << >>)}

\* ------------------------------------------------------------ insert
\* if (new_level > max_level_) { for (i = max_level_ + 1; i <= new_level; ++i)
\*     update[i] = head_;  max_level_ = new_level; }
Raised(st, c, new_level, update) ==
    [i \in 0 .. MAX_LEVEL - 1 |->
        IF i > st.max_level[c] /\ i <= new_level THEN HeadP ELSE update[i]]

\* a fault: new_node->forward[i] = update[i]->forward[i] is left out
Splice_Truncates(st, c, value, new_level, update) ==
    LET new_node == FreshNode(st, c, value)
        spliced(p, fw) ==
            [i \in DOMAIN fw |->
                IF i - 1 <= new_level /\ update[i - 1] = p
                THEN new_node ELSE fw[i]]
    IN [st EXCEPT
          !.head[c].forward = spliced(HeadP, @),
          !.nodes = [p \in DOMAIN st.nodes \cup {new_node} |->
                       IF p = new_node THEN SkipListNode(value, new_level)
                       ELSE [st.nodes[p] EXCEPT !.forward = spliced(p, @)]]]

\* a fault: the loop runs while i < new_level, the top level is not linked
Splice_OffByOne(st, c, value, new_level, update) ==
    LET new_node == FreshNode(st, c, value)
        spliced(p, fw) ==
            [i \in DOMAIN fw |->
                IF i - 1 < new_level /\ update[i - 1] = p
                THEN new_node ELSE fw[i]]
        made == [SkipListNode(value, new_level) EXCEPT
                   !.forward = [i \in 1 .. new_level + 1 |->
                                   IF i - 1 < new_level
                                   THEN Fwd(st, c, update[i - 1], i - 1)
                                   ELSE Null]]
    IN [st EXCEPT
          !.head[c].forward = spliced(HeadP, @),
          !.nodes = [p \in DOMAIN st.nodes \cup {new_node} |->
                       IF p = new_node THEN made
                       ELSE [st.nodes[p] EXCEPT !.forward = spliced(p, @)]]]

\* new_node = make_shared<Node>(value, new_level);
\* for (i = 0; i <= new_level; ++i) {
\*     new_node->forward[i] = update[i]->forward[i];
\*     update[i]->forward[i] = new_node; }
\* Each round writes the two links of its own level only, so the rounds are
\* taken together.
Splice(st, c, value, new_level, update) ==
    LET new_node == FreshNode(st, c, value)
        spliced(p, fw) ==
            [i \in DOMAIN fw |->
                IF i - 1 <= new_level /\ update[i - 1] = p
                THEN new_node ELSE fw[i]]
        made == [SkipListNode(value, new_level) EXCEPT
                   !.forward = [i \in 1 .. new_level + 1 |->
                                   Fwd(st, c, update[i - 1], i - 1)]]
    IN [st EXCEPT
          !.head[c].forward = spliced(HeadP, @),
          !.nodes = [p \in DOMAIN st.nodes \cup {new_node} |->
                       IF p = new_node THEN made
                       ELSE [st.nodes[p] EXCEPT !.forward = spliced(p, @)]]]

\* a fault: max_level_ = new_level is not guarded by new_level > max_level_
insert_impl_LevelAlwaysSet(st, c, value, draws) ==
    With(Search(st, c, "lower", value), LAMBDA s :
      LET current == Fwd(st, c, s.current, 0)
      IN IF current # Null /\ Equivalent(value, st.nodes[current].value)
         THEN [st |-> [st EXCEPT !.inserted_keys[c] = @ \cup {value}],
               pos |-> current, inserted |-> FALSE]
         ELSE
           LET new_level == random_level(draws)
               update == Raised(st, c, new_level, s.update)
           IN With(Splice(st, c, value, new_level, update), LAMBDA linked :
                [st |-> [linked EXCEPT
                           !.max_level[c] = new_level,
                           !.size[c] = @ + 1,
                           !.inserted_keys[c] = @ \cup {value}],
                 pos |-> FreshNode(st, c, value), inserted |-> TRUE]))

\* a fault: the position is searched with the test of upper_bound
insert_impl_UpperSearch(st, c, value, draws) ==
    With(Search(st, c, "upper", value), LAMBDA s :
      LET current == Fwd(st, c, s.current, 0)
      IN IF current # Null /\ Equivalent(value, st.nodes[current].value)
         THEN [st |-> [st EXCEPT !.inserted_keys[c] = @ \cup {value}],
               pos |-> current, inserted |-> FALSE]
         ELSE
           LET new_level == random_level(draws)
               update == Raised(st, c, new_level, s.update)
           IN With(Splice(st, c, value, new_level, update), LAMBDA linked :
                [st |-> [linked EXCEPT
                           !.max_level[c] =
                               IF new_level > @ THEN new_level ELSE @,
                           !.size[c] = @ + 1,
                           !.inserted_keys[c] = @ \cup {value}],
                 pos |-> FreshNode(st, c, value), inserted |-> TRUE]))

insert_impl(st, c, value, draws) ==
    With(Search(st, c, "lower", value), LAMBDA s :
      LET current == Fwd(st, c, s.current, 0)
      IN IF current # Null /\ Equivalent(value, st.nodes[current].value)
         THEN [st |-> [st EXCEPT !.inserted_keys[c] = @ \cup {value}],
               pos |-> current, inserted |-> FALSE]
         ELSE
           LET new_level == random_level(draws)
               update == Raised(st, c, new_level, s.update)
           IN With(Splice(st, c, value, new_level, update), LAMBDA linked :
                [st |-> [linked EXCEPT
                           !.max_level[c] =
                               IF new_level > @ THEN new_level ELSE @,
                           !.size[c] = @ + 1,
                           !.inserted_keys[c] = @ \cup {value}],
                 pos |-> FreshNode(st, c, value), inserted |-> TRUE]))

\* emplace(args...): return insert(value_type(std::forward<Args>(args)...));
emplace(st, c, value, draws) == insert_impl(st, c, value, draws)

\* ------------------------------------------------------------ queries
\* a fault: the node the search stops before is returned untested
find_impl_Untested(st, c, key) ==
    Fwd(st, c, Search(st, c, "lower", key).current, 0)

\* find_impl: the node equivalent to key, or end()
find_impl(st, c, key) ==
    LET s == Search(st, c, "lower", key)
        current == Fwd(st, c, s.current, 0)
    IN IF current # Null /\ Equivalent(key, st.nodes[current].value)
       THEN current ELSE Null

\* find(key) const: the same search, written out a second time
find_const(st, c, key) ==
    LET s == Search(st, c, "lower", key)
        current == Fwd(st, c, s.current, 0)
    IN IF current # Null /\ ~ comp(key, st.nodes[current].value)
                         /\ ~ comp(st.nodes[current].value, key)
       THEN current ELSE Null

\* a fault: lower_bound walks past the elements equal to key
lower_bound_impl_PastEqual(st, c, key) ==
    Fwd(st, c, Search(st, c, "upper", key).current, 0)

lower_bound_impl(st, c, key) ==
    Fwd(st, c, Search(st, c, "lower", key).current, 0)

\* a fault: upper_bound stops at the element equal to key
upper_bound_impl_AtEqual(st, c, key) ==
    Fwd(st, c, Search(st, c, "lower", key).current, 0)

upper_bound_impl(st, c, key) ==
    Fwd(st, c, Search(st, c, "upper", key).current, 0)

\* return find(key) != end() ? 1 : 0;
count(st, c, key) == IF find_const(st, c, key) # Null THEN 1 ELSE 0

\* a fault: both ends are the lower bound
equal_range_LowerTwice(st, c, key) ==
    << lower_bound_impl(st, c, key), lower_bound_impl(st, c, key) >>

\* return {lower_bound(key), upper_bound(key)};
equal_range(st, c, key) ==
    << lower_bound_impl(st, c, key), upper_bound_impl(st, c, key) >>

\* iterator(head_->forward[0])
begin(st, c) == Fwd(st, c, HeadP, 0)

\* iterator(nullptr)
end == Null

\* return size_ == 0;
empty(st, c) == st.size[c] = 0

\* operator++ of an iterator at node p: current_ = current_->forward[0]
\* (forward.empty() never holds: a node has lvl + 1 links)
Next0(st, p) ==
    IF st.nodes[p].forward # << >> THEN st.nodes[p].forward[1] ELSE Null

\* the nodes a range-for visits from position p to end()
RECURSIVE Chain(_, _)
Chain(st, p) == IF p = Null THEN << >> ELSE << p >> \o Chain(st, Next0(st, p))

\* the values *it yields over begin() .. end()
Items(st, c) == LET ch == Chain(st, begin(st, c))
                IN [i \in 1 .. Len(ch) |-> st.nodes[ch[i]].value]

\* ------------------------------------------------------------ iterators
\* An iterator is its member current_: Null or the name of a node.
\* SkipListIterator() = default: current_ is a null shared_ptr
SkipListIterator == Null

\* a fault: the last element, which has no successor, is taken for the end
operator_deref_LastIsEnd(st, it) ==
    IF it = Null \/ Next0(st, it) = Null THEN [raised |-> TRUE, it |-> it]
    ELSE [raised |-> FALSE, it |-> it, value |-> st.nodes[it].value]

\* operator*: if (!current_) throw std::runtime_error(...);
\* return current_->value;   (it: current_ after the call)
operator_deref(st, it) ==
    IF it = Null THEN [raised |-> TRUE, it |-> it]
    ELSE [raised |-> FALSE, it |-> it, value |-> st.nodes[it].value]

\* operator->: if (!current_) throw std::runtime_error(...);
\* return &(current_->value);   (target: the node whose value is addressed)
operator_arrow(st, it) ==
    IF it = Null THEN [raised |-> TRUE, it |-> it]
    ELSE [raised |-> FALSE, it |-> it, target |-> it]

\* a fault: the highest link of the node is followed
operator_inc_TopLink(st, it) ==
    IF it # Null /\ st.nodes[it].forward # << >>
    THEN st.nodes[it].forward[Len(st.nodes[it].forward)] ELSE Null

\* operator++: if (current_ && !current_->forward.empty())
\*     current_ = current_->forward[0]; else current_ = nullptr;
operator_inc(st, it) == IF it # Null THEN Next0(st, it) ELSE Null

\* the positions an iterator at it walks by operator++ until it is end()
RECURSIVE Walk(_, _)
Walk(st, it) ==
    IF it = end THEN << >> ELSE << it >> \o Walk(st, operator_inc(st, it))

\* ------------------------------------------------------------ ownership
\* shared_ptr: a node lives while a head_ or a living node links to it
RECURSIVE Owned(_, _)
Owned(st, S) ==
    LET more == S \cup { q \in DOMAIN st.nodes :
                           \E p \in S : \E i \in DOMAIN st.nodes[p].forward :
                               st.nodes[p].forward[i] = q }
    IN IF more = S THEN S ELSE Owned(st, more)

HeadLinks(st) ==
    { q \in DOMAIN st.nodes :
        \E c \in AllLists : \E i \in DOMAIN st.head[c].forward :
            st.head[c].forward[i] = q }

\* the nodes whose last shared_ptr has gone are destroyed
Release(st) ==
    With(Owned(st, HeadLinks(st)), LAMBDA live :
      [st EXCEPT !.nodes = [p \in live |-> st.nodes[p]]])

\* a fault: an iterator is no owner of the node it refers to
ReleaseHeld_HeadsOnly(st, held) == Release(st)

\* the same while iterators exist: current_ is a shared_ptr too, so the nodes
\* of held, and the nodes they link to, live on
ReleaseHeld(st, held) ==
    With(Owned(st, HeadLinks(st) \cup (held \cap DOMAIN st.nodes)), LAMBDA live :
      [st EXCEPT !.nodes = [p \in live |-> st.nodes[p]]])

\* ------------------------------------------------------------ members
\* skip_list(comp, alloc): size_(0), max_level_(0), head_ = make_shared<Node>
construct(st, c) ==
    [st EXCEPT !.head[c] = NewHead(FreshHead(st, c)), !.size[c] = 0, !.max_level[c] = 0,
               !.inserted_keys[c] = {}]

\* ~skip_list() = default: head_ is released
destruct(st, c) ==
    With([st EXCEPT !.head[c] = NoHead, !.size[c] = 0, !.max_level[c] = 0,
                    !.inserted_keys[c] = {}],
         LAMBDA gone : Release(gone))

\* a fault: max_level_ is not reset
clear_KeepsMaxLevel(st, c) ==
    With([st EXCEPT !.head[c].forward = [i \in 1 .. MAX_LEVEL |-> Null],
                    !.size[c] = 0, !.inserted_keys[c] = {}],
         LAMBDA cleared : Release(cleared))

\* clear(): head_->forward.clear(); head_->forward.resize(MAX_LEVEL); ...
clear(st, c) ==
    With([st EXCEPT !.head[c].forward = [i \in 1 .. MAX_LEVEL |-> Null],
                    !.size[c] = 0, !.max_level[c] = 0,
                    !.inserted_keys[c] = {}],
         LAMBDA cleared : Release(cleared))

\* clear() while the iterators of held exist
clear_held(st, c, held) ==
    With([st EXCEPT !.head[c].forward = [i \in 1 .. MAX_LEVEL |-> Null],
                    !.size[c] = 0, !.max_level[c] = 0,
                    !.inserted_keys[c] = {}],
         LAMBDA cleared : ReleaseHeld(cleared, held))

\* a fault: max_level_ is not exchanged
swap_KeepsMaxLevel(st, c, o) ==
    [st EXCEPT !.head[c] = st.head[o], !.head[o] = st.head[c],
               !.size[c] = st.size[o], !.size[o] = st.size[c],
               !.inserted_keys[c] = st.inserted_keys[o],
               !.inserted_keys[o] = st.inserted_keys[c]]

\* swap(other): std::swap of head_, size_, max_level_ (comp_, alloc_, gen_
\* and dist_ carry no state of the model)
swap(st, c, o) ==
    [st EXCEPT !.head[c] = st.head[o], !.head[o] = st.head[c],
               !.size[c] = st.size[o], !.size[o] = st.size[c],
               !.max_level[c] = st.max_level[o], !.max_level[o] = st.max_level[c],
               !.inserted_keys[c] = st.inserted_keys[o],
               !.inserted_keys[o] = st.inserted_keys[c]]

\* for (const auto& value : other) insert(value);  vals are other's values in
\* iteration order, ds[n] the draws of the n-th insert
RECURSIVE insert_all(_, _, _, _)
insert_all(st, c, vals, ds) ==
    IF vals = << >> THEN st
    ELSE With(insert_impl(st, c, Head(vals), Head(ds)).st,
              LAMBDA next : insert_all(next, c, Tail(vals), Tail(ds)))

\* a fault: the copy takes the members of other, head_ included, as they are
copy_construct_Shallow(st, c, o, ds) ==
    [st EXCEPT !.head[c] = st.head[o], !.size[c] = st.size[o],
               !.max_level[c] = st.max_level[o],
               !.inserted_keys[c] = st.inserted_keys[o]]

\* skip_list(const skip_list& other) : skip_list(other.comp_, other.alloc_)
copy_construct(st, c, o, ds) ==
    With(construct(st, c),
         LAMBDA made : insert_all(made, c, Items(st, o), ds))

\* a fault: other.size_ is not reset
move_construct_KeepsSize(st, c, o) ==
    [st EXCEPT !.head[c] = st.head[o], !.head[o] = NoHead,
               !.size[c] = st.size[o],
               !.max_level[c] = st.max_level[o], !.max_level[o] = 0,
               !.inserted_keys[c] = st.inserted_keys[o],
               !.inserted_keys[o] = {}]

\* skip_list(skip_list&& other): head_(std::move(other.head_)), ...
move_construct(st, c, o) ==
    [st EXCEPT !.head[c] = st.head[o], !.head[o] = NoHead,
               !.size[c] = st.size[o], !.size[o] = 0,
               !.max_level[c] = st.max_level[o], !.max_level[o] = 0,
               !.inserted_keys[c] = st.inserted_keys[o],
               !.inserted_keys[o] = {}]

\* Addresses are names: once the head c held before an assignment is gone,
\* the head c holds now, and the nodes under it, made by this assignment,
\* are given the first names left unused (no reference to them exists
\* outside c yet)
Renamed(st, c) ==
    LET old == st.head[c].id
        new == FreshHead(st, c)
        under == {p \in DOMAIN st.nodes : p[1] = old}
        kept == DOMAIN st.nodes \ under
        last == [v \in {p[2] : p \in under} |->
                    LET js == {q[3] : q \in {r \in kept : r[1] = new /\ r[2] = v}}
                    IN IF js = {} THEN 0
                       ELSE CHOOSE j \in js : \A k \in js : k <= j]
        name == [p \in DOMAIN st.nodes |->
                    IF p \in under THEN << new, p[2], last[p[2]] + p[3] >>
                    ELSE p]
        links(fw) == [i \in DOMAIN fw |->
                         IF fw[i] = Null THEN Null ELSE name[fw[i]]]
    IN IF ~ st.head[c].present \/ old = new THEN st
       ELSE [st EXCEPT
               !.head[c].id = new,
               !.head[c].forward = links(@),
               !.nodes = [q \in {name[p] : p \in DOMAIN st.nodes} |->
                            LET p == CHOOSE r \in DOMAIN st.nodes : name[r] = q
                            IN [st.nodes[p] EXCEPT !.forward = links(@)]]]

\* operator=(const skip_list& other): skip_list temp(other); swap(temp);
copy_assign(st, c, o, ds) ==
    IF c = o THEN st
    ELSE With(copy_construct(st, Temp, o, ds), LAMBDA temp :
         With(swap(temp, c, Temp), LAMBDA swapped :
         With(destruct(swapped, Temp), LAMBDA done : Renamed(done, c))))

\* operator=(skip_list&& other): clear(); head_ = std::move(other.head_); ...
move_assign(st, c, o) ==
    IF c = o THEN st
    ELSE With(clear(st, c), LAMBDA cleared :
         With(move_construct(cleared, c, o), LAMBDA moved : Release(moved)))

\* ------------------------------------------------------------ comparison
\* std::equal(first1, last1, first2): "throws" when operator* raises
RECURSIVE std_equal(_, _, _, _)
std_equal(st, first1, last1, first2) ==
    IF first1 = last1 THEN "true"
    ELSE IF operator_deref(st, first1).raised
            \/ operator_deref(st, first2).raised THEN "throws"
    ELSE IF operator_deref(st, first1).value # operator_deref(st, first2).value
         THEN "false"
    ELSE std_equal(st, operator_inc(st, first1), last1,
                   operator_inc(st, first2))

\* a fault: the sizes are not compared first
operator_eq_NoSizeTest(st, lhs, rhs) ==
    std_equal(st, begin(st, lhs), end, begin(st, rhs))

\* operator==: if (lhs.size() != rhs.size()) return false;
\* return std::equal(lhs.begin(), lhs.end(), rhs.begin());
operator_eq(st, lhs, rhs) ==
    IF st.size[lhs] # st.size[rhs] THEN "false"
    ELSE std_equal(st, begin(st, lhs), end, begin(st, rhs))

\* operator!=: return !(lhs == rhs);
operator_ne(st, lhs, rhs) ==
    LET eq == operator_eq(st, lhs, rhs)
    IN IF eq = "true" THEN "false" ELSE IF eq = "false" THEN "true" ELSE eq

\* a fault: a range that ends first is not taken for the smaller one
RECURSIVE std_lexicographical_compare_NoPrefix(_, _, _, _, _)
std_lexicographical_compare_NoPrefix(st, first1, last1, first2, last2) ==
    IF first1 # last1 /\ first2 # last2
    THEN IF operator_deref(st, first1).value < operator_deref(st, first2).value
         THEN TRUE
         ELSE IF operator_deref(st, first2).value
                    < operator_deref(st, first1).value
         THEN FALSE
         ELSE std_lexicographical_compare_NoPrefix(
                  st, operator_inc(st, first1), last1,
                  operator_inc(st, first2), last2)
    ELSE FALSE

\* std::lexicographical_compare(first1, last1, first2, last2), the elements
\* compared by operator< of T; no iterator is dereferenced at its end
RECURSIVE std_lexicographical_compare(_, _, _, _, _)
std_lexicographical_compare(st, first1, last1, first2, last2) ==
    IF first1 # last1 /\ first2 # last2
    THEN IF operator_deref(st, first1).value < operator_deref(st, first2).value
         THEN TRUE
         ELSE IF operator_deref(st, first2).value
                    < operator_deref(st, first1).value
         THEN FALSE
         ELSE std_lexicographical_compare(st, operator_inc(st, first1), last1,
                                          operator_inc(st, first2), last2)
    ELSE first1 = last1 /\ first2 # last2

\* operator<
operator_lt(st, lhs, rhs) ==
    std_lexicographical_compare(st, begin(st, lhs), end, begin(st, rhs), end)

\* operator<=: return !(rhs < lhs);
operator_le(st, lhs, rhs) == ~ operator_lt(st, rhs, lhs)

\* operator>: return rhs < lhs;
operator_gt(st, lhs, rhs) == operator_lt(st, rhs, lhs)

\* operator>=: return !(lhs < rhs);
operator_ge(st, lhs, rhs) == ~ operator_lt(st, lhs, rhs)

\* the draws of the inserts of a copy of o
CopyDraws(st, o) == [1 .. Len(Items(st, o)) -> DrawSeqs]

\* ------------------------------------------------------------ actions
Apply(st) ==
    /\ head' = st.head
    /\ size' = st.size
    /\ max_level' = st.max_level
    /\ nodes' = st.nodes
    /\ inserted_keys' = st.inserted_keys

\* a member dereferences a null head_: undefined behaviour, in every build
\* an access through address 0 that ends the process; nothing is returned
NullHead ==
    /\ fault' = TRUE
    /\ UNCHANGED << order, alive, head, size, max_level, nodes, inserted_keys >>

Init ==
    /\ order \in {"less", "greater"}
    /\ alive = [c \in AllLists |-> FALSE]
    /\ head = [c \in AllLists |-> NoHead]
    /\ size = [c \in AllLists |-> 0]
    /\ max_level = [c \in AllLists |-> 0]
    /\ nodes = << >>
    /\ inserted_keys = [c \in AllLists |-> {}]
    /\ fault = FALSE

\* skip_list<int, Compare> c;
Construct(c) ==
    /\ ~ fault /\ ~ alive[c]
    /\ alive' = [alive EXCEPT ![c] = TRUE]
    /\ \E st \in {construct(Store, c)} : Apply(st)
    /\ UNCHANGED << order, fault >>

\* c goes out of scope
Destroy(c) ==
    /\ ~ fault /\ alive[c]
    /\ alive' = [alive EXCEPT ![c] = FALSE]
    /\ \E st \in {destruct(Store, c)} : Apply(st)
    /\ UNCHANGED << order, fault >>

\* skip_list<int, Compare> c(o);
CopyConstruct(c, o) ==
    /\ ~ fault /\ ~ alive[c] /\ alive[o]
    /\ IF head[o].present
       THEN /\ \E ds \in CopyDraws(Store, o) :
                 \E st \in {copy_construct(Store, c, o, ds)} : Apply(st)
            /\ alive' = [alive EXCEPT ![c] = TRUE]
            /\ UNCHANGED << order, fault >>
       ELSE NullHead

\* skip_list<int, Compare> c(std::move(o));
MoveConstruct(c, o) ==
    /\ ~ fault /\ ~ alive[c] /\ alive[o]
    /\ alive' = [alive EXCEPT ![c] = TRUE]
    /\ \E st \in {move_construct(Store, c, o)} : Apply(st)
    /\ UNCHANGED << order, fault >>

\* c = o;
CopyAssign(c, o) ==
    /\ ~ fault /\ alive[c] /\ alive[o]
    /\ IF c = o \/ head[o].present
       THEN /\ \E ds \in IF c = o THEN {<< >>} ELSE CopyDraws(Store, o) :
                 \E st \in {copy_assign(Store, c, o, ds)} : Apply(st)
            /\ UNCHANGED << order, alive, fault >>
       ELSE NullHead

\* c = std::move(o);
MoveAssign(c, o) ==
    /\ ~ fault /\ alive[c] /\ alive[o]
    /\ IF c = o \/ head[c].present
       THEN /\ \E st \in {move_assign(Store, c, o)} : Apply(st)
            /\ UNCHANGED << order, alive, fault >>
       ELSE NullHead

\* c.insert(key);
Insert(c, key) ==
    /\ ~ fault /\ alive[c]
    /\ IF head[c].present
       THEN /\ \E draws \in DrawSeqs :
                 \E st \in {insert_impl(Store, c, key, draws).st} : Apply(st)
            /\ UNCHANGED << order, alive, fault >>
       ELSE NullHead

\* c.emplace(key);
Emplace(c, key) ==
    /\ ~ fault /\ alive[c]
    /\ IF head[c].present
       THEN /\ \E draws \in DrawSeqs :
                 \E st \in {emplace(Store, c, key, draws).st} : Apply(st)
            /\ UNCHANGED << order, alive, fault >>
       ELSE NullHead

\* c.insert(key), whatever the length of the run of draws below P
InsertDrawn(c, key) ==
    /\ ~ fault /\ alive[c]
    /\ IF head[c].present
       THEN /\ \E draws \in LevelDraws :
                 \E st \in {insert_impl(Store, c, key, draws).st} : Apply(st)
            /\ UNCHANGED << order, alive, fault >>
       ELSE NullHead

\* c.clear();
Clear(c) ==
    /\ ~ fault /\ alive[c]
    /\ IF head[c].present
       THEN /\ \E st \in {clear(Store, c)} : Apply(st)
            /\ UNCHANGED << order, alive, fault >>
       ELSE NullHead

\* c.swap(o);
Swap(c, o) ==
    /\ ~ fault /\ alive[c] /\ alive[o]
    /\ \E st \in {swap(Store, c, o)} : Apply(st)
    /\ UNCHANGED << order, alive, fault >>

\* c.find(key), count, lower_bound, upper_bound, equal_range, begin(): const
\* members that read through head_ and change nothing
Query(c) ==
    /\ ~ fault /\ alive[c]
    /\ IF head[c].present THEN UNCHANGED vars ELSE NullHead

\* c.size(), c.empty(), c.end(): they read size_, or nothing
Size(c) ==
    /\ ~ fault /\ alive[c]
    /\ UNCHANGED vars

\* c == o, c != o: begin() of both once the sizes are equal
Equal(c, o) ==
    /\ ~ fault /\ alive[c] /\ alive[o]
    /\ IF size[c] # size[o] \/ (head[c].present /\ head[o].present)
       THEN UNCHANGED vars ELSE NullHead

\* c < o, c <= o, c > o, c >= o: begin() of both
Less(c, o) ==
    /\ ~ fault /\ alive[c] /\ alive[o]
    /\ IF head[c].present /\ head[o].present
       THEN UNCHANGED vars ELSE NullHead

Next ==
    \/ \E c \in Lists : Construct(c)
    \/ \E c \in Lists : Destroy(c)
    \/ \E c, o \in Lists : CopyConstruct(c, o)
    \/ \E c, o \in Lists : MoveConstruct(c, o)
    \/ \E c, o \in Lists : CopyAssign(c, o)
    \/ \E c, o \in Lists : MoveAssign(c, o)
    \/ \E c \in Lists, key \in Keys : Insert(c, key)
    \/ \E c \in Lists, key \in Keys : Emplace(c, key)
    \/ \E c \in Lists : Clear(c)
    \/ \E c, o \in Lists : Swap(c, o)
    \/ \E c \in Lists : Query(c)
    \/ \E c \in Lists : Size(c)
    \/ \E c, o \in Lists : Equal(c, o)
    \/ \E c, o \in Lists : Less(c, o)

Spec == Init /\ [][Next]_vars

\* one container and few keys, with nodes of every level random_level yields
MaxLevelKey == 2
LevelList == "a"

LevelNext ==
    \/ Construct(LevelList)
    \/ \E key \in 1 .. MaxLevelKey : InsertDrawn(LevelList, key)
    \/ Clear(LevelList)

LevelSpec == Init /\ [][LevelNext]_vars

\* two containers that are given the same operations, each with the levels
\* its own generator draws
First == "a"
Second == "b"

\* skip_list<int, Compare> a, b;
BothConstruct ==
    /\ ~ fault /\ ~ alive[First] /\ ~ alive[Second]
    /\ alive' = [alive EXCEPT ![First] = TRUE, ![Second] = TRUE]
    /\ \E st \in {construct(construct(Store, First), Second)} : Apply(st)
    /\ UNCHANGED << order, fault >>

\* a.insert(key); b.insert(key);
BothInsert(key) ==
    /\ ~ fault /\ alive[First] /\ alive[Second]
    /\ head[First].present /\ head[Second].present
    /\ \E da, db \in DrawSeqs :
         \E one \in {insert_impl(Store, First, key, da).st} :
            \E st \in {insert_impl(one, Second, key, db).st} : Apply(st)
    /\ UNCHANGED << order, alive, fault >>

\* a.clear(); b.clear();
BothClear ==
    /\ ~ fault /\ alive[First] /\ alive[Second]
    /\ head[First].present /\ head[Second].present
    /\ \E st \in {clear(clear(Store, First), Second)} : Apply(st)
    /\ UNCHANGED << order, alive, fault >>

PairNext ==
    \/ BothConstruct
    \/ \E key \in Keys : BothInsert(key)
    \/ BothClear

PairSpec == Init /\ [][PairNext]_vars

\* ------------------------------------------------------------ properties
\* c is a container whose members can be called: it is within its lifetime
\* and holds its head (a moved-from container holds none, and every member
\* that searches or clears reads through the null head_: action NullHead)
Live(c) == alive[c] /\ head[c].present

\* the keys asked for: every key inserted, one below and one above them all
QueryKeys == 0 .. MaxKey + 1

\* neither is less than the other under the comparator
CompEqual(a, b) == ~ comp(a, b) /\ ~ comp(b, a)

\* the positions and the values of c in iteration order
Positions(st, c) == Chain(st, begin(st, c))

Values(st, c) == {Items(st, c)[i] : i \in DOMAIN Items(st, c)}

\* the elements of S in ascending order under the comparator
RECURSIVE Ascending(_)
Ascending(S) ==
    IF S = {} THEN << >>
    ELSE LET least == CHOOSE x \in S : \A y \in S \ {x} : comp(x, y)
         IN << least >> \o Ascending(S \ {least})

\* the first position of c whose value satisfies Test, or end()
FirstPosition(st, c, Test(_)) ==
    LET ch == Positions(st, c)
        hits == {i \in DOMAIN ch : Test(st.nodes[ch[i]].value)}
    IN IF hits = {} THEN Null
       ELSE ch[CHOOSE i \in hits : \A k \in hits : i <= k]

\* C1: whatever keys were inserted into a container since it was made or
\* last cleared, in whatever order and with whatever levels, iterating it
\* yields the distinct inserted keys in ascending order under the
\* comparator, each once, and size() is the number of distinct keys.
C1_SortedDistinct ==
    \A c \in Lists :
        Live(c) =>
            /\ Items(Store, c) = Ascending(inserted_keys[c])
            /\ size[c] = Cardinality(inserted_keys[c])

\* three keys were inserted, not all at level 0, under std::greater
C1_Witness ==
    \E c \in Lists :
        /\ Live(c) /\ order = "greater"
        /\ inserted_keys[c] = Keys /\ max_level[c] = 1
        /\ Items(Store, c) = << 3, 2, 1 >>
        /\ \E p \in DOMAIN nodes : nodes[p].value = 2 /\ nodes[p].level = 1

\* C2: insert(v), and emplace(v), of a key that no element of the container
\* compares equal to returns inserted = true with a position that
\* dereferences to v, and size() grows by exactly 1.
C2_InsertNew ==
    \A c \in Lists : \A v \in Keys : \A draws \in DrawSeqs :
        (Live(c) /\ \A e \in Values(Store, c) : ~ CompEqual(v, e)) =>
            \A r \in {insert_impl(Store, c, v, draws),
                      emplace(Store, c, v, draws)} :
                /\ r.inserted
                /\ r.pos \in DOMAIN r.st.nodes
                /\ r.st.nodes[r.pos].value = v
                /\ r.pos \in {Positions(r.st, c)[i] :
                                 i \in DOMAIN Positions(r.st, c)}
                /\ r.st.size[c] = size[c] + 1

\* a new key goes between two elements, with a level above the head's
C2_Witness ==
    \E c \in Lists : \E draws \in DrawSeqs :
        /\ Live(c) /\ Values(Store, c) = {1, 3} /\ max_level[c] = 0
        /\ LET r == insert_impl(Store, c, 2, draws)
           IN /\ r.inserted /\ r.st.size[c] = 3 /\ r.st.max_level[c] = 1
              /\ Cardinality({Items(r.st, c)[i] : i \in 1 .. 3}) = 3

\* C3: insert(v) when an element comparing equal to v is present returns
\* inserted = false with the position of that element, and leaves size, the
\* tracked maximum level, every forward link and the stored element as they
\* were.
C3_InsertDuplicate ==
    \A c \in Lists : \A v \in Keys : \A draws \in DrawSeqs :
        (Live(c) /\ \E e \in Values(Store, c) : CompEqual(v, e)) =>
            LET r == insert_impl(Store, c, v, draws)
            IN /\ ~ r.inserted
               /\ r.pos = FirstPosition(Store, c, LAMBDA e : CompEqual(v, e))
               /\ r.st.size = size
               /\ r.st.max_level = max_level
               /\ r.st.head = head
               /\ r.st.nodes = nodes

\* the key is the middle one of three, and a draw would have raised the level
C3_Witness ==
    \E c \in Lists : \E draws \in DrawSeqs :
        /\ Live(c) /\ size[c] = 3 /\ max_level[c] = 0
        /\ random_level(draws) = 1
        /\ LET r == insert_impl(Store, c, 2, draws)
           IN ~ r.inserted /\ nodes[r.pos].value = 2

\* C4: for every key k, find(k) returns end() if and only if no element
\* compares equal to k, and otherwise the position of the element equal to
\* k; count(k) is 1 exactly when find(k) is not end(), else 0.
C4_FindCount ==
    \A c \in Lists : \A k \in QueryKeys :
        Live(c) =>
            LET pos == find_impl(Store, c, k)
            IN /\ pos = Null <=> \A e \in Values(Store, c) : ~ CompEqual(k, e)
               /\ pos = FirstPosition(Store, c, LAMBDA e : CompEqual(k, e))
               /\ count(Store, c, k) = IF pos # Null THEN 1 ELSE 0
               /\ count(Store, c, k) <= 1

\* a key is found on a two-level list, and a key between two elements is not
C4_Witness ==
    \E c \in Lists :
        /\ Live(c) /\ Values(Store, c) = {1, 3} /\ max_level[c] = 1
        /\ find_impl(Store, c, 3) # Null /\ count(Store, c, 3) = 1
        /\ find_impl(Store, c, 2) = Null /\ count(Store, c, 2) = 0

\* the positions of the half-open range [first, second)
RECURSIVE Range(_, _, _)
Range(st, first, second) ==
    IF first = second \/ first = end THEN << >>
    ELSE << first >> \o Range(st, Next0(st, first), second)

\* C5: for every key k, lower_bound(k) is the first position in iteration
\* order whose value is not less than k under the comparator, and end() when
\* every element is less than k, the empty container included.
C5_LowerBound ==
    \A c \in Lists : \A k \in QueryKeys :
        Live(c) =>
            LET pos == lower_bound_impl(Store, c, k)
            IN /\ pos = FirstPosition(Store, c, LAMBDA e : ~ comp(e, k))
               /\ (\A e \in Values(Store, c) : comp(e, k)) => pos = end

\* on a two-level list: a bound between two elements, a bound at an element,
\* and end() for a key after them all
C5_Witness ==
    \E c \in Lists :
        /\ Live(c) /\ order = "less" /\ max_level[c] = 1
        /\ Items(Store, c) = << 1, 3 >>
        /\ nodes[lower_bound_impl(Store, c, 2)].value = 3
        /\ nodes[lower_bound_impl(Store, c, 1)].value = 1
        /\ lower_bound_impl(Store, c, 4) = end

\* C6: for every key k, upper_bound(k) is the first position in iteration
\* order whose value is strictly greater than k under the comparator, and
\* end() when no element is greater than k, the empty container included.
C6_UpperBound ==
    \A c \in Lists : \A k \in QueryKeys :
        Live(c) =>
            LET pos == upper_bound_impl(Store, c, k)
            IN /\ pos = FirstPosition(Store, c, LAMBDA e : comp(k, e))
               /\ (\A e \in Values(Store, c) : ~ comp(k, e)) => pos = end

\* on a two-level list: the bound of a present key is the element after it,
\* and end() for the last key
C6_Witness ==
    \E c \in Lists :
        /\ Live(c) /\ order = "less" /\ max_level[c] = 1
        /\ Items(Store, c) = << 1, 2, 3 >>
        /\ nodes[upper_bound_impl(Store, c, 2)].value = 3
        /\ nodes[upper_bound_impl(Store, c, 0)].value = 1
        /\ upper_bound_impl(Store, c, 3) = end

\* C7: equal_range(k) is the pair (lower_bound(k), upper_bound(k)); the
\* half-open range it delimits holds exactly the element equal to k when k
\* is present, second being the successor of first, and is empty, first
\* equal to second, when k is absent; it never holds more than one element.
C7_EqualRange ==
    \A c \in Lists : \A k \in QueryKeys :
        Live(c) =>
            LET r == equal_range(Store, c, k)
                range == Range(Store, r[1], r[2])
            IN /\ r[1] = lower_bound_impl(Store, c, k)
               /\ r[2] = upper_bound_impl(Store, c, k)
               /\ Len(range) <= 1
               /\ IF \E e \in Values(Store, c) : CompEqual(k, e)
                  THEN /\ Len(range) = 1
                       /\ CompEqual(k, nodes[range[1]].value)
                       /\ r[2] = Next0(Store, r[1])
                  ELSE r[1] = r[2]

\* the range of the middle key of three holds that key alone, and the range
\* of an absent key between two elements is empty at the element after it
C7_Witness ==
    \E c, d \in Lists :
        /\ Live(c) /\ Values(Store, c) = {1, 2, 3}
        /\ LET r == equal_range(Store, c, 2)
           IN r[1] # end /\ r[2] # end /\ r[2] = Next0(Store, r[1])
        /\ Live(d) /\ Values(Store, d) = {1, 3}
        /\ LET r == equal_range(Store, d, 2)
           IN r[1] = r[2] /\ r[1] # end

\* the nodes linked, at any level, from the head of c
Reach(st, c) ==
    Owned(st, { q \in DOMAIN st.nodes :
                  \E i \in DOMAIN st.head[c].forward :
                      st.head[c].forward[i] = q })

\* container d reads the same in both stores
Unaffected(after, before, d) ==
    /\ after.size[d] = before.size[d]
    /\ Items(after, d) = Items(before, d)

\* no insert into c and no clear of c changes what d reads
Independent(st, c, d) ==
    /\ \A after \in {clear(st, c)} : Unaffected(after, st, d)
    /\ \A v \in Keys : \A draws \in DrawSeqs :
           \A after \in {insert_impl(st, c, v, draws).st} :
               Unaffected(after, st, d)

\* C8: a copy constructed from o, and a container copy-assigned from o, has
\* the size and the iteration sequence of o, and o is left as it was: its
\* head, size, maximum level and every node under it.  The two share no
\* node; and in every state, the later ones included, an insert into or a
\* clear of one container leaves the size and the iteration sequence of
\* every other container unchanged.
C8_CopyIndependent ==
    /\ \A c, o \in Lists :
         (c # o /\ Live(o)) =>
           \A ds \in CopyDraws(Store, o) :
             \A r \in {IF alive[c] THEN copy_assign(Store, c, o, ds)
                                   ELSE copy_construct(Store, c, o, ds)} :
                /\ r.head[c].present
                /\ r.head[c].id # r.head[o].id
                /\ r.size[c] = size[o]
                /\ Items(r, c) = Items(Store, o)
                /\ r.head[o] = head[o]
                /\ r.size[o] = size[o]
                /\ r.max_level[o] = max_level[o]
                /\ \A p \in Reach(Store, o) :
                       p \in DOMAIN r.nodes /\ r.nodes[p] = nodes[p]
                /\ Reach(r, c) \cap Reach(r, o) = {}
    /\ \A c, d \in Lists :
         (c # d /\ Live(c) /\ Live(d)) =>
            /\ Reach(Store, c) \cap Reach(Store, d) = {}
            /\ Independent(Store, c, d)

\* a two-level list of three keys is copied over a container that holds
\* another key, and the copy draws other levels than the source has
C8_Witness ==
    \E c, o \in Lists :
        /\ c # o /\ Live(c) /\ Live(o)
        /\ size[o] = 3 /\ max_level[o] = 1 /\ size[c] = 1
        /\ \E ds \in CopyDraws(Store, o) :
             \E r \in {copy_assign(Store, c, o, ds)} :
                /\ r.size[c] = 3 /\ r.max_level[c] = 0
                /\ Cardinality(Reach(r, c) \cup Reach(r, o)) = 6

\* C9: after move construction, or move assignment, from a source o other
\* than the destination c, o reports size() == 0 and empty(), and c has the
\* size and the iteration sequence o had before; the elements c held before
\* a move assignment are gone.
C9_Move ==
    \A c, o \in Lists :
        (c # o /\ alive[o] /\ (alive[c] => head[c].present)) =>
            \A r \in {IF alive[c] THEN move_assign(Store, c, o)
                                  ELSE move_construct(Store, c, o)} :
                /\ r.size[o] = 0
                /\ empty(r, o)
                /\ r.size[c] = size[o]
                /\ head[o].present =>
                      /\ r.head[c].present
                      /\ Items(r, c) = Items(Store, o)
                /\ alive[c] => Reach(Store, c) \cap DOMAIN r.nodes = {}

\* two keys on two levels are move-assigned over a container holding another
C9_Witness ==
    \E c, o \in Lists :
        /\ c # o /\ Live(c) /\ Live(o) /\ order = "less"
        /\ Items(Store, c) = << 1 >>
        /\ Items(Store, o) = << 2, 3 >> /\ max_level[o] = 1
        /\ LET r == move_assign(Store, c, o)
           IN /\ Items(r, c) = << 2, 3 >> /\ r.size[c] = 2
              /\ r.size[o] = 0 /\ DOMAIN r.nodes = Reach(r, c)

\* the store with the head of c holding MAX_LEVEL links if it holds
\* MAX_LEVEL + 1 (as the constructor leaves it), and MAX_LEVEL + 1 if it
\* holds MAX_LEVEL (as clear() leaves it)
Resized(st, c) ==
    [st EXCEPT !.head[c].forward =
        IF Len(@) = MAX_LEVEL THEN Append(@, Null) ELSE SubSeq(@, 1, MAX_LEVEL)]

\* the store with the links 0 .. MAX_LEVEL - 1 of the head of c alone
Trunc(st, c) == [st EXCEPT !.head[c].forward = SubSeq(@, 1, MAX_LEVEL)]

\* what the queries on c return, by value
Answers(st, c) ==
    LET val(p) == IF p = end THEN << >> ELSE << st.nodes[p].value >>
    IN [k \in QueryKeys |->
          << val(find_impl(st, c, k)), count(st, c, k),
             val(lower_bound_impl(st, c, k)), val(upper_bound_impl(st, c, k)),
             val(equal_range(st, c, k)[1]), val(equal_range(st, c, k)[2]) >>]

\* what a container shows: size, emptiness, maximum level and the values
\* in iteration order with the level of each node
Shown(st, c) ==
    [size |-> st.size[c], empty |-> empty(st, c),
     max_level |-> st.max_level[c],
     items |-> Items(st, c),
     levels |-> [i \in DOMAIN Positions(st, c) |->
                    st.nodes[Positions(st, c)[i]].level]]

\* C10: clear() on any container resets every head forward link to empty,
\* size to 0 and the tracked maximum level to 0, so that size() == 0,
\* empty() and begin() == end(); and the cleared container behaves like a
\* freshly constructed one: it shows and answers the same, it takes an
\* insert the same, and (the one difference, the count of head links the
\* two hold, MAX_LEVEL and MAX_LEVEL + 1) no insert and no query in any
\* later state depends on the link beyond MAX_LEVEL - 1, which stays empty.
C10_Clear ==
    \A c \in Lists :
        Live(c) =>
          /\ \A r \in {clear(Store, c)} :
                \A f \in {construct(destruct(Store, c), c)} :
                   /\ r.head[c].present
                   /\ \A i \in DOMAIN r.head[c].forward :
                          r.head[c].forward[i] = Null
                   /\ r.size[c] = 0 /\ empty(r, c)
                   /\ r.max_level[c] = 0
                   /\ begin(r, c) = end
                   /\ Reach(Store, c) \cap DOMAIN r.nodes = {}
                   /\ Trunc(r, c).head[c].forward = Trunc(f, c).head[c].forward
                   /\ Shown(r, c) = Shown(f, c)
                   /\ Answers(r, c) = Answers(f, c)
                   /\ \A v \in Keys : \A draws \in DrawSeqs :
                        \A x \in {insert_impl(r, c, v, draws)} :
                          \A y \in {insert_impl(f, c, v, draws)} :
                            /\ x.inserted = y.inserted
                            /\ \A xs \in {x.st} : \A ys \in {y.st} :
                                  Shown(xs, c) = Shown(ys, c)
          /\ Len(head[c].forward) = MAX_LEVEL + 1 =>
                head[c].forward[MAX_LEVEL + 1] = Null
          /\ \A other \in {Resized(Store, c)} :
                /\ Answers(other, c) = Answers(Store, c)
                /\ Items(other, c) = Items(Store, c)
                /\ \A v \in Keys : \A draws \in DrawSeqs :
                      \A x \in {insert_impl(Store, c, v, draws)} :
                        \A y \in {insert_impl(other, c, v, draws)} :
                          /\ x.inserted = y.inserted /\ x.pos = y.pos
                          /\ Trunc(x.st, c) = Trunc(y.st, c)

\* a container that was cleared (its head holds MAX_LEVEL links) holds two
\* keys on two levels again, and clearing it once more empties it
C10_Witness ==
    \E c \in Lists :
        /\ Live(c) /\ Len(head[c].forward) = MAX_LEVEL
        /\ size[c] = 2 /\ max_level[c] = 1
        /\ LET r == clear(Store, c)
           IN r.size[c] = 0 /\ begin(r, c) = end /\ r.max_level[c] = 0

\* C11: a.swap(b) exchanges the state of the two containers: afterwards a
\* has the size, the maximum level and the iteration sequence b had, and b
\* those a had; an iterator a issued before still refers to the same
\* element, unchanged, and walks the same positions, now those of b; and a
\* second swap restores the store as it was.
C11_Swap ==
    \A a, b \in Lists :
        (a # b /\ alive[a] /\ alive[b]) =>
            \A r \in {swap(Store, a, b)} :
                /\ r.size[a] = size[b] /\ r.size[b] = size[a]
                /\ r.max_level[a] = max_level[b]
                /\ r.max_level[b] = max_level[a]
                /\ r.head[a].present = head[b].present
                /\ r.head[b].present = head[a].present
                /\ Live(b) => Items(r, a) = Items(Store, b)
                /\ Live(a) =>
                      /\ Items(r, b) = Items(Store, a)
                      /\ \A it \in Reach(Store, a) \cup {begin(Store, a), end} :
                            /\ operator_deref(r, it) = operator_deref(Store, it)
                            /\ Walk(r, it) = Walk(Store, it)
                            /\ it # end => it \in Reach(r, b)
                      /\ begin(r, b) = begin(Store, a)
                /\ \A back \in {swap(r, a, b)} :
                      /\ back.head = head /\ back.size = size
                      /\ back.max_level = max_level /\ back.nodes = nodes
                /\ \A back \in {swap(r, b, a)} :
                      /\ back.head = head /\ back.size = size
                      /\ back.max_level = max_level /\ back.nodes = nodes

\* a two-level list of two keys is swapped with a one-level list of another
\* key, and an iterator at the second key of the first walks on in the other
C11_Witness ==
    \E a, b \in Lists :
        /\ a # b /\ Live(a) /\ Live(b)
        /\ size[a] = 2 /\ max_level[a] = 1 /\ size[b] = 1 /\ max_level[b] = 0
        /\ \E r \in {swap(Store, a, b)} :
             \E it \in {operator_inc(Store, begin(Store, a))} :
                /\ r.size[b] = 2 /\ r.max_level[b] = 1 /\ r.size[a] = 1
                /\ it # end /\ Positions(r, b)[2] = it
                /\ Items(r, a) # Items(r, b)

\* the iterator begin() of c advanced n times
RECURSIVE Advanced(_, _, _)
Advanced(st, c, n) ==
    IF n = 0 THEN begin(st, c) ELSE operator_inc(st, Advanced(st, c, n - 1))

\* the iterators of c that hold no node, however obtained: end(), begin()
\* advanced past the last element, a default-constructed iterator
Nodeless(st, c) ==
    {end, SkipListIterator, Advanced(st, c, st.size[c])}

\* C12: operator* and operator-> on an iterator that holds no node (end()
\* of an empty or a non-empty container, an iterator advanced past the last
\* element, a default-constructed iterator) raise the runtime error and
\* leave the iterator as it was (the container is not theirs to change: both
\* are const members of the iterator); on an iterator that holds a node
\* they never raise, and yield the value of that node.
C12_Dereference ==
    \A c \in Lists :
        Live(c) =>
            /\ \A it \in Nodeless(Store, c) :
                  /\ operator_deref(Store, it).raised
                  /\ operator_deref(Store, it).it = it
                  /\ operator_arrow(Store, it).raised
                  /\ operator_arrow(Store, it).it = it
            /\ \A n \in 0 .. size[c] - 1 :
                  \A it \in {Advanced(Store, c, n)} :
                     /\ ~ operator_deref(Store, it).raised
                     /\ operator_deref(Store, it).value = Items(Store, c)[n + 1]
                     /\ operator_deref(Store, it).it = it
                     /\ ~ operator_arrow(Store, it).raised
                     /\ nodes[operator_arrow(Store, it).target].value
                            = Items(Store, c)[n + 1]
                     /\ operator_arrow(Store, it).it = it

\* an empty container, whose begin() is end(), and one of two elements: its
\* first and last dereference, begin() advanced twice raises
C12_Witness ==
    \E c, d \in Lists :
        /\ Live(c) /\ size[c] = 0 /\ operator_deref(Store, begin(Store, c)).raised
        /\ Live(d) /\ size[d] = 2 /\ order = "less"
        /\ operator_deref(Store, Advanced(Store, d, 0)).value = 1
        /\ operator_deref(Store, Advanced(Store, d, 1)).value = 3
        /\ operator_deref(Store, Advanced(Store, d, 2)).raised
        /\ operator_arrow(Store, Advanced(Store, d, 2)).raised

\* C13: every container operation other than iterator dereference is total:
\* in every reachable state, the moved-from one included, no member call
\* ends in a fault.
C13_Total == ~ fault

\* sequence s precedes sequence t lexicographically, a proper prefix being
\* the smaller
LexLess(s, t) ==
    \E k \in 0 .. Len(s) :
        /\ k <= Len(t)
        /\ \A i \in 1 .. k : s[i] = t[i]
        /\ \/ k = Len(s) /\ k < Len(t)
           \/ k < Len(s) /\ k < Len(t) /\ s[k + 1] < t[k + 1]

\* C14: two containers into which the same keys were inserted, in whatever
\* orders, however often and with whatever levels, compare equal under
\* operator==; containers whose iteration sequences differ in length or in
\* some element compare unequal; and operator!= is the negation.
C14_Equality ==
    \A a, b \in Lists :
        (Live(a) /\ Live(b)) =>
            \A eq \in {operator_eq(Store, a, b)} :
                /\ eq \in {"true", "false"}
                /\ inserted_keys[a] = inserted_keys[b] => eq = "true"
                /\ Len(Items(Store, a)) # Len(Items(Store, b)) => eq = "false"
                /\ (\E i \in 1 .. size[a] :
                       i <= size[b] /\ Items(Store, a)[i] # Items(Store, b)[i])
                      => eq = "false"
                /\ eq = "true" <=> Items(Store, a) = Items(Store, b)
                /\ operator_ne(Store, a, b) = "true" <=> eq = "false"
                /\ operator_ne(Store, a, b) = "false" <=> eq = "true"

\* the same three keys in two containers whose nodes have other levels
C14_Witness ==
    \E a, b \in Lists :
        /\ a # b /\ Live(a) /\ Live(b)
        /\ inserted_keys[a] = Keys /\ inserted_keys[b] = Keys
        /\ max_level[a] = 1 /\ max_level[b] = 0
        /\ operator_eq(Store, a, b) = "true"
        /\ operator_ne(Store, a, b) = "false"

\* C15: a < b exactly when the iteration sequence of a precedes that of b
\* lexicographically (the elements compared by their operator<, a proper
\* prefix being smaller); a > b iff b < a, a <= b iff not b < a, a >= b iff
\* not a < b; and a < a never holds.
C15_Ordering ==
    \A a, b \in Lists :
        (Live(a) /\ Live(b)) =>
            /\ operator_lt(Store, a, b)
                  <=> LexLess(Items(Store, a), Items(Store, b))
            /\ operator_gt(Store, a, b)
                  <=> LexLess(Items(Store, b), Items(Store, a))
            /\ operator_le(Store, a, b)
                  <=> ~ LexLess(Items(Store, b), Items(Store, a))
            /\ operator_ge(Store, a, b)
                  <=> ~ LexLess(Items(Store, a), Items(Store, b))
            /\ operator_gt(Store, a, b) <=> operator_lt(Store, b, a)
            /\ ~ operator_lt(Store, a, a)

\* a is a proper prefix of b, so a < b and not b < a
C15_Witness ==
    \E a, b \in Lists :
        /\ Live(a) /\ Live(b) /\ order = "less"
        /\ Items(Store, a) = << 1, 2 >> /\ Items(Store, b) = << 1, 2, 3 >>
        /\ operator_lt(Store, a, b) /\ ~ operator_lt(Store, b, a)
        /\ operator_le(Store, a, b) /\ operator_ge(Store, b, a)
        /\ operator_gt(Store, b, a)

\* C16: an iterator started at begin() and advanced by operator++ follows
\* the level-0 link of the node it holds, visits every element of the
\* container exactly once, in iteration order, and is end() after exactly
\* size() advances; advancing an iterator at end() leaves it at end().
C16_Traversal ==
    \A c \in Lists :
        Live(c) =>
            /\ \A n \in 0 .. size[c] - 1 :
                  \A it \in {Advanced(Store, c, n)} :
                     /\ it # end
                     /\ operator_inc(Store, it) = nodes[it].forward[1]
                     /\ nodes[it].value = Ascending(inserted_keys[c])[n + 1]
            /\ {Advanced(Store, c, n) : n \in 0 .. size[c] - 1}
                  = Reach(Store, c)
            /\ Cardinality(Reach(Store, c)) = size[c]
            /\ Advanced(Store, c, size[c]) = end
            /\ Advanced(Store, c, size[c] + 1) = end
            /\ operator_inc(Store, end) = end

\* three elements, the first of level 1 with its level-1 link past the
\* second: the walk still visits the second, and ends after three advances
C16_Witness ==
    \E c \in Lists :
        /\ Live(c) /\ size[c] = 3 /\ max_level[c] = 1
        /\ \E it \in {begin(Store, c)} :
              /\ nodes[it].level = 1
              /\ nodes[it].forward[2] # nodes[it].forward[1]
              /\ operator_inc(Store, it) = nodes[it].forward[1]
        /\ Advanced(Store, c, 2) # end /\ Advanced(Store, c, 3) = end

\* the nodes met from p on by following the links of index i
RECURSIVE LinkChain(_, _, _)
LinkChain(st, p, i) ==
    IF p = Null THEN << >>
    ELSE << p >> \o LinkChain(st, st.nodes[p].forward[i + 1], i)

\* the chain of level i of c: from the head through the links of index i
LevelChain(st, c, i) == LinkChain(st, Fwd(st, c, HeadP, i), i)

\* the place of node p in the sequence ch of distinct nodes, 0 if not in it
Place(ch, p) ==
    IF \E n \in DOMAIN ch : ch[n] = p
    THEN CHOOSE n \in DOMAIN ch : ch[n] = p ELSE 0

\* C17: in every reachable state and for every level i up to the tracked
\* maximum level, the chain from the head through the links of index i is
\* strictly increasing under the comparator, holds only nodes whose own
\* level is at least i, and is a subsequence of the chain of level 0; every
\* forward link of a node points to a node with a strictly greater key (so
\* the links have no cycle).
C17_LevelChains ==
    \A c \in Lists :
        Live(c) =>
            /\ \A i \in 0 .. max_level[c] :
                  \A ch \in {LevelChain(Store, c, i)} :
                     /\ \A j \in 1 .. Len(ch) - 1 :
                           comp(nodes[ch[j]].value, nodes[ch[j + 1]].value)
                     /\ \A j \in 1 .. Len(ch) : nodes[ch[j]].level >= i
                     /\ \A j \in 1 .. Len(ch) :
                           Place(Positions(Store, c), ch[j]) > 0
                     /\ \A j \in 1 .. Len(ch) - 1 :
                           Place(Positions(Store, c), ch[j])
                              < Place(Positions(Store, c), ch[j + 1])
            /\ \A p \in Reach(Store, c) :
                  \A i \in DOMAIN nodes[p].forward :
                     nodes[p].forward[i] # Null =>
                        comp(nodes[p].value, nodes[nodes[p].forward[i]].value)

\* three elements: the chain of level 1 holds the first and the last and
\* passes over the second
C17_Witness ==
    \E c \in Lists :
        /\ Live(c) /\ size[c] = 3 /\ max_level[c] = 1
        /\ LevelChain(Store, c, 1)
              = << Positions(Store, c)[1], Positions(Store, c)[3] >>

\* the forward links of index i that point to node p: << source, i >>, the
\* source a head (<< "head", d >>) or a node
Referrers(st, p, i) ==
    {<< << "head", d >>, i >> :
         d \in {e \in AllLists : /\ st.head[e].present
                                  /\ i + 1 \in DOMAIN st.head[e].forward
                                  /\ st.head[e].forward[i + 1] = p}}
    \cup {<< q, i >> :
             q \in {r \in DOMAIN st.nodes : /\ i + 1 \in DOMAIN st.nodes[r].forward
                                            /\ st.nodes[r].forward[i + 1] = p}}

\* C18: in every reachable state every node of a container, of level k, is
\* the target of exactly one forward link at each level 0 .. k, from the
\* head of that container or from another of its nodes, and of no forward
\* link above k: exactly k + 1 links reference it.
C18_LinkCounts ==
    \A c \in Lists :
        Live(c) =>
            \A p \in Reach(Store, c) :
                /\ Len(nodes[p].forward) = nodes[p].level + 1
                /\ \A i \in 0 .. nodes[p].level :
                      /\ Cardinality(Referrers(Store, p, i)) = 1
                      /\ \A r \in Referrers(Store, p, i) :
                            r[1] \in Reach(Store, c) \cup {<< "head", c >>}
                /\ \A i \in nodes[p].level + 1 .. MAX_LEVEL :
                      Referrers(Store, p, i) = {}
                /\ Cardinality(UNION {Referrers(Store, p, i) :
                                         i \in 0 .. MAX_LEVEL})
                      = nodes[p].level + 1

\* a node of level 1 that another node references at both levels, beside a
\* node of level 0 and one the head references
C18_Witness ==
    \E c \in Lists :
        /\ Live(c) /\ size[c] = 3
        /\ \E p, q \in Reach(Store, c) :
              /\ nodes[p].level = 1
              /\ Referrers(Store, p, 0) = {<< q, 0 >>}
              /\ Referrers(Store, p, 1) = {<< q, 1 >>}
        /\ \E p \in Reach(Store, c) : nodes[p].level = 0

\* the greatest of a finite set of naturals, 0 for the empty set
Highest(S) == IF S = {} THEN 0 ELSE CHOOSE x \in S : \A y \in S : y <= x

\* C19: in every reachable state the tracked maximum level of a container
\* is the highest level among its nodes, 0 when it has none; every head
\* forward link above it is empty; size is the number of nodes on the chain
\* of level 0; and an insert changes the maximum level only when it makes
\* a node whose level exceeds it, to that level.
C19_MaxLevel ==
    \A c \in Lists :
        /\ (alive[c] /\ ~ head[c].present) =>
              size[c] = 0 /\ max_level[c] = 0
        /\ Live(c) =>
            /\ max_level[c]
                  = Highest({nodes[p].level : p \in Reach(Store, c)})
            /\ \A i \in DOMAIN head[c].forward :
                  i - 1 > max_level[c] => head[c].forward[i] = Null
            /\ size[c] = Len(LevelChain(Store, c, 0))
            /\ \A v \in Keys : \A draws \in DrawSeqs :
                  \A r \in {insert_impl(Store, c, v, draws)} :
                     IF r.inserted /\ r.st.nodes[r.pos].level > max_level[c]
                     THEN r.st.max_level[c] = r.st.nodes[r.pos].level
                     ELSE r.st.max_level[c] = max_level[c]

\* a container of maximum level 1: an insert at level 0 leaves it, and the
\* node of level 1 is not the last one inserted (another container, of
\* maximum level 0, is raised by an insert at level 1)
C19_Witness ==
    \E c, d \in Lists :
        /\ Live(c) /\ size[c] = 2 /\ max_level[c] = 1
        /\ \E draws \in DrawSeqs :
              \E r \in {insert_impl(Store, c, 2, draws)} :
                 /\ r.inserted /\ r.st.nodes[r.pos].level = 0
                 /\ r.st.max_level[c] = 1
        /\ Live(d) /\ size[d] = 1 /\ max_level[d] = 0
        /\ \E draws \in DrawSeqs :
              \E r \in {insert_impl(Store, d, 2, draws)} :
                 r.inserted /\ r.st.max_level[d] = 1

\* the update-path predecessor of key v at level i: the last node of the
\* chain of level i whose value is less than v, or the head
PredAt(st, c, v, i) ==
    LET ch == LevelChain(st, c, i)
        less == {j \in DOMAIN ch : comp(st.nodes[ch[j]].value, v)}
    IN IF less = {} THEN HeadP
       ELSE ch[CHOOSE j \in less : \A k \in less : k <= j]

\* the forward links of c in st: << source, index >>, the source the head of
\* c or any node of the store
LinksOf(st, c) ==
    {<< HeadP, i - 1 >> : i \in DOMAIN st.head[c].forward}
    \cup UNION {{<< p, i - 1 >> : i \in DOMAIN st.nodes[p].forward} :
                  p \in DOMAIN st.nodes}

\* C20: an insert that makes a node of level L changes, among the links that
\* existed, exactly the link of index i of the update-path predecessor at
\* level i, for each i in 0 .. L: L + 1 links, each now leading to the new
\* node, whose link of index i takes the target that link had.  Every other
\* forward link, the heads of other containers, and the value, the level
\* and the existence of every node there was, are unchanged.
C20_InsertFrame ==
    \A c \in Lists : \A v \in Keys : \A draws \in DrawSeqs :
        Live(c) =>
            \A r \in {insert_impl(Store, c, v, draws)} :
              r.inserted =>
                \A after \in {r.st} :
                  LET new == r.pos
                      L == after.nodes[new].level
                      path == {<< PredAt(Store, c, v, i), i >> : i \in 0 .. L}
                  IN /\ new \notin DOMAIN nodes
                     /\ DOMAIN after.nodes = DOMAIN nodes \cup {new}
                     /\ after.nodes[new].value = v
                     /\ L = random_level(draws)
                     /\ Len(after.nodes[new].forward) = L + 1
                     /\ {l \in LinksOf(Store, c) :
                            Fwd(after, c, l[1], l[2]) # Fwd(Store, c, l[1], l[2])}
                           = path
                     /\ Cardinality(path) = L + 1
                     /\ \A l \in path :
                           /\ Fwd(after, c, l[1], l[2]) = new
                           /\ after.nodes[new].forward[l[2] + 1]
                                 = Fwd(Store, c, l[1], l[2])
                     /\ \A p \in DOMAIN nodes :
                           /\ after.nodes[p].value = nodes[p].value
                           /\ after.nodes[p].level = nodes[p].level
                           /\ Len(after.nodes[p].forward) = Len(nodes[p].forward)
                     /\ \A d \in AllLists \ {c} : after.head[d] = head[d]
                     /\ after.head[c].id = head[c].id
                     /\ Len(after.head[c].forward) = Len(head[c].forward)

\* key 2 goes at level 1 between two nodes of level 0: its predecessor is
\* the first node at level 0 and the head at level 1
C20_Witness ==
    \E c \in Lists : \E draws \in DrawSeqs :
        /\ Live(c) /\ size[c] = 2 /\ max_level[c] = 0
        /\ \E r \in {insert_impl(Store, c, 2, draws)} :
              /\ r.inserted /\ r.st.nodes[r.pos].level = 1
              /\ PredAt(Store, c, 2, 0) # HeadP
              /\ PredAt(Store, c, 2, 1) = HeadP
              /\ r.st.nodes[r.pos].forward[1] # Null
              /\ r.st.nodes[r.pos].forward[2] = Null

\* ------------------------------------------------------------ C21
\* the number of draws below P before the first one that is not
LeadingBelow(draws) ==
    CHOOSE n \in 0 .. Len(draws) :
        /\ \A i \in 1 .. n : draws[i]
        /\ n = Len(draws) \/ ~ draws[n + 1]

\* C21: for every sequence of draws random_level returns a level in
\* 0 .. MAX_LEVEL - 1: the number of draws below P that precede the first one
\* that is not, and MAX_LEVEL - 1 when that number is larger (so that it
\* stops after MAX_LEVEL draws at most, however long the run); every node that
\* insert makes has such a level and level + 1 links, and max_level_ stays in
\* that range
C21_LevelRange ==
    /\ \A draws \in LevelDraws :
         \E level \in {random_level(draws)} :
            /\ level \in 0 .. MAX_LEVEL - 1
            /\ level = IF LeadingBelow(draws) < MAX_LEVEL - 1
                       THEN LeadingBelow(draws) ELSE MAX_LEVEL - 1
            /\ level + 1 <= MAX_LEVEL
    /\ \A p \in DOMAIN nodes :
         /\ nodes[p].level \in 0 .. MAX_LEVEL - 1
         /\ Len(nodes[p].forward) = nodes[p].level + 1
    /\ \A c \in Lists : max_level[c] \in 0 .. MAX_LEVEL - 1

\* a node of the highest level next to one of a lower level: the run of draws
\* below P reached the cap for the first and ended early for the second
C21_Witness ==
    /\ Live(LevelList)
    /\ max_level[LevelList] = MAX_LEVEL - 1
    /\ \E p, q \in DOMAIN nodes :
         /\ nodes[p].level = MAX_LEVEL - 1
         /\ nodes[q].level \in 1 .. MAX_LEVEL - 2

\* ------------------------------------------------------------ C22
\* C22: every container within its lifetime - constructed, copied, moved to
\* or from, inserted into, cleared, swapped - holds its sentinel head, the
\* head has exactly MAX_LEVEL forward slots, and the head is no position of
\* the iteration from begin()
C22_Sentinel ==
    \A c \in Lists :
        alive[c] =>
            /\ head[c].present
            /\ Len(head[c].forward) = MAX_LEVEL
            /\ \A i \in DOMAIN Positions(Store, c) :
                   Positions(Store, c)[i] # HeadP

\* ------------------------------------------------------------ C23
\* the sets of iterators that c can have issued (by begin(), find, the bound
\* queries, insert, and operator++ on any of them) and that still exist
\* when c is cleared: each holds a node of c
HeldSets(st, c) == SUBSET {Positions(st, c)[i] : i \in DOMAIN Positions(st, c)}

\* the nodes from the position of an iterator of held to the last one
Behind(st, held) ==
    UNION { {Walk(st, it)[i] : i \in DOMAIN Walk(st, it)} : it \in held }

\* C23, as claimed: after clear() every node that was in the structure is
\* destroyed, whatever iterators exist, so that none of them can be
\* dereferenced to an old element or advanced along the old chain
C23_ClearDestroys ==
    \A c \in Lists :
        Live(c) =>
          \A held \in HeldSets(Store, c) :
            \A after \in {clear_held(Store, c, held)} :
               /\ Reach(Store, c) \cap DOMAIN after.nodes = {}
               /\ \A it \in held : it \notin DOMAIN after.nodes

\* C23, amended: a node is destroyed once no shared_ptr refers to it, and
\* iterators hold one as heads and nodes do.  With no iterator in existence
\* the living nodes are those linked from a head, and clear() destroys every
\* node of the container.  With iterators in existence clear() empties the
\* container (size 0, begin() == end()) and destroys its nodes except those
\* from the position of an iterator onward; such an iterator still
\* dereferences, without error, to the element it referred to, and advances
\* over the old elements behind it to end().  No other container changes.
C23_ClearReleases ==
    /\ DOMAIN nodes = Owned(Store, HeadLinks(Store))
    /\ \A c \in Lists :
        Live(c) =>
          \A held \in HeldSets(Store, c) :
            \A after \in {clear_held(Store, c, held)} :
               /\ after.size[c] = 0 /\ begin(after, c) = end
               /\ Reach(after, c) = {}
               /\ Reach(Store, c) \cap DOMAIN after.nodes = Behind(Store, held)
               /\ held = {} => Reach(Store, c) \cap DOMAIN after.nodes = {}
               /\ DOMAIN nodes \ Reach(Store, c) \subseteq DOMAIN after.nodes
               /\ \A it \in held :
                     /\ it \in DOMAIN after.nodes
                     /\ after.nodes[it] = nodes[it]
                     /\ ~ operator_deref(after, it).raised
                     /\ operator_deref(after, it) = operator_deref(Store, it)
                     /\ operator_inc(after, it) = operator_inc(Store, it)
                     /\ Walk(after, it) = Walk(Store, it)
               /\ \A d \in Lists \ {c} :
                     Live(d) => /\ Unaffected(after, Store, d)
                                /\ Reach(after, d) = Reach(Store, d)

\* three elements and an iterator at the second: clear() destroys the first
\* node alone, and the iterator still yields the second and the third
C23_Witness ==
    \E c \in Lists :
        /\ Live(c) /\ size[c] = 3
        /\ \E it \in {Positions(Store, c)[2]} :
             \E after \in {clear_held(Store, c, {it})} :
                /\ Positions(Store, c)[1] \notin DOMAIN after.nodes
                /\ begin(after, c) = end
                /\ ~ operator_deref(after, it).raised
                /\ Len(Walk(after, it)) = 2

\* ------------------------------------------------------------ C24
\* the levels of the nodes of c in iteration order
Levels(st, c) ==
    [i \in DOMAIN Positions(st, c) |-> st.nodes[Positions(st, c)[i]].level]

\* what insert returns, by value: the element at the position, and the flag
Returned(r) == << r.st.nodes[r.pos].value, r.inserted >>

\* C24: two containers that were given the same inserts and clears, each
\* with its own level draws, have the same size, the same emptiness and the
\* same iteration sequence, return the same (value or end, count) from find,
\* count, lower_bound, upper_bound and equal_range for every key, and return
\* the same element and the same inserted flag from the next insert of any
\* key, whatever levels the two draw for it
C24_LevelIndependent ==
    Live(First) /\ Live(Second) =>
        /\ size[First] = size[Second]
        /\ empty(Store, First) = empty(Store, Second)
        /\ Items(Store, First) = Items(Store, Second)
        /\ Answers(Store, First) = Answers(Store, Second)
        /\ \A key \in Keys : \A da, db \in DrawSeqs :
              \A x \in {insert_impl(Store, First, key, da)} :
                \A y \in {insert_impl(Store, Second, key, db)} :
                   /\ Returned(x) = Returned(y)
                   /\ \A xs \in {x.st} : \A ys \in {y.st} :
                        /\ xs.size[First] = ys.size[Second]
                        /\ Items(xs, First) = Items(ys, Second)

\* the two hold the same three elements on different levels, under different
\* maximum levels
C24_Witness ==
    /\ Live(First) /\ Live(Second)
    /\ size[First] = 3 /\ size[Second] = 3
    /\ Levels(Store, First) # Levels(Store, Second)
    /\ max_level[First] # max_level[Second]

\* ------------------------------------------------------------ C25
\* the values operator* yields while an iterator at it walks to end()
Visited(st, it) ==
    [i \in DOMAIN Walk(st, it) |-> st.nodes[Walk(st, it)[i]].value]

\* C25: an iterator that a container issued (at any of its positions, by
\* begin(), find, a bound query or an insert) is left valid by a later
\* insert of any key with any level, new or duplicate: its node lives on with
\* the value and the level it had, operator* yields the same element without
\* error, and operator++ up to end() visits that element and then exactly
\* the elements now in the container that sort after it, in order - the
\* inserted one among them if it sorts after it.  The iterator is a position
\* of the container again afterwards, so the same holds for every further
\* insert.
C25_InsertKeepsIterators ==
    \A c \in Lists :
        Live(c) =>
          \A n \in DOMAIN Positions(Store, c) :
            \A it \in {Positions(Store, c)[n]} :
              \A key \in Keys : \A draws \in DrawSeqs :
                \A after \in {insert_impl(Store, c, key, draws).st} :
                  \A v \in {nodes[it].value} :
                     /\ it \in DOMAIN after.nodes
                     /\ after.nodes[it].value = v
                     /\ after.nodes[it].level = nodes[it].level
                     /\ operator_deref(after, it) = operator_deref(Store, it)
                     /\ ~ operator_deref(after, it).raised
                     /\ Place(Positions(after, c), it) > 0
                     /\ Visited(after, it) =
                          << v >> \o Ascending({x \in Values(Store, c) \cup {key} :
                                                  comp(v, x)})
                     /\ Visited(after, it) =
                          << v >> \o Ascending({x \in Values(after, c) :
                                                  comp(v, x)})

\* an iterator at the first of two elements, and a third element inserted
\* between the two on a level above both: the walk from the iterator, two
\* elements long before, is three elements long afterwards
C25_Witness ==
    \E c \in Lists :
        /\ Live(c) /\ size[c] = 2 /\ max_level[c] = 0
        /\ \E it \in {begin(Store, c)} : \E key \in Keys : \E draws \in DrawSeqs :
             \E r \in {insert_impl(Store, c, key, draws)} :
                /\ r.inserted /\ r.st.nodes[r.pos].level = 1
                /\ Len(Walk(Store, it)) = 2
                /\ Len(Walk(r.st, it)) = 3
                /\ Walk(r.st, it)[2] = r.pos

====
